---------------------------- MODULE Spec2Model ----------------------------
(***************************************************************************)
(* The air-hockey match orchestrator (class World) as a state machine.     *)
(*                                                                         *)
(* World is translated from src/src/shared/typings/shared.d.ts.  Player,   *)
(* Ball and TypedEvent are classes of the repository whose files are not   *)
(* part of the sources at hand; they are modelled from section 4.2 and 4.4 *)
(* of the specification.  The rigid-body engine (p2) is an external        *)
(* library; its step is modelled as narrowphase -> beginContact callbacks  *)
(* -> solver -> integration over axis-aligned bounding boxes.              *)
(*                                                                         *)
(* Positions and velocities are pairs <<x, y>> of integers in arena units. *)
(* The static obstacles have half-unit coordinates (a post is centred at   *)
(* y = 222.5), so every geometric test is done on doubled coordinates.     *)
(***************************************************************************)
EXTENDS Integers, Sequences, FiniteSets, TLC

VARIABLES
    isReady,      \* Player.isReady of players[0], players[1] (indices 1, 2)
    direction,    \* Player's stored (pending) direction
    ppos,         \* position of each player's body
    pvel,         \* velocity of each player's body
    bpos,         \* position of the ball's body
    bvel,         \* velocity of the ball's body
    listeners,    \* goalEmitter's handlers, in registration order
    cleared,      \* p2World.clear() has run: the world holds no body
    overlaps,     \* the engine's overlap keeper: pairs overlapping at the last narrowphase
    pc,           \* "idle", or "step" while p2World.step runs inside onHeartbeat
    pending,      \* beginContact notifications of the running step not yet delivered
    goalEvents,   \* every event handed to goalEmitter.emit, oldest first
    handlerRuns,  \* number of handler invocations made by goalEmitter.emit
    readyCalls,   \* history: the known ids named in setPlayerReady calls so far
    beat,         \* the running/last heartbeat: goal scored, reset by a handler,
                  \* ball clamped, its timeStep, its new contacts
    ticks,        \* number of onHeartbeat calls so far
    lastOp        \* the last operation or callback: its name, inputs and return value

vars == <<isReady, direction, ppos, pvel, bpos, bvel, listeners, cleared, overlaps,
          pc, pending, goalEvents, handlerRuns, readyCalls, beat, ticks, lastOp>>

-----------------------------------------------------------------------------
(* Bounds of the model *)

\* onHeartbeat calls in one run
MaxTicks == 2

\* handlers registered on goalEmitter
MaxListeners == 1

\* onHeartbeat calls in one run of the longer match
MaxRallyTicks == 6

\* onHeartbeat calls in one run of the match played to its end
MaxEndTicks == 3

-----------------------------------------------------------------------------
(* Program constants *)

BALL_INIT_VELOCITY == 40

GAME_WIDTH == 1200

GAME_HEIGHT == 600

goalWidth == 20

goalHeight == 125

goalNetSize == 30

goalBoxWidth == 4

\* Player.DIAMETER, Player.SPEED, Ball.DIAMETER, Ball.MAX_VELOCITY: constants of
\* the Player and Ball classes
PLAYER_DIAMETER == 60

PLAYER_SPEED == 15

BALL_DIAMETER == 30

BALL_MAX_VELOCITY == 70

-----------------------------------------------------------------------------
(* Inputs *)

Player1Id == "p1"

Player2Id == "p2"

\* socket ids a command may carry: the two players and a stranger
Ids == {Player1Id, Player2Id, "stranger"}

teamLeft == "left"

teamRight == "right"

Teams == {teamLeft, teamRight}

NoTeam == "none"

\* IPlayerDirectionUpdate.direction
Directions == {<<-1, 0>>, <<1, 0>>}

\* timeStep of onHeartbeat, in seconds
TimeSteps == {12}

Zero == <<0, 0>>

PlayerIdx == {1, 2}

\* players[i].socketId and players[i].team, as the constructor sets them
socketId == <<Player1Id, Player2Id>>

teamOf == <<teamLeft, teamRight>>

-----------------------------------------------------------------------------
(* The record of the last operation *)

\* arg: the id of setPlayerReady and movePlayer, the team of reset, the pair
\* <<bodyA, bodyB>> of a beginContact
Op(name, arg, ret) == [op |-> name, arg |-> arg, ret |-> ret]

NoRet == "void"

-----------------------------------------------------------------------------
\* find falling back to the first player when no socketId matches
FindPlayer_FirstIfNone(id) == IF socketId[2] = id THEN 2 ELSE 1

\* find falling back to the last player when no socketId matches
FindPlayer_LastIfNone(id) == IF socketId[1] = id THEN 1 ELSE 2

(* Array.prototype.find over this.players: the first index whose socketId is
   id, 0 when there is none *)
FindPlayer(id) ==
    IF socketId[1] = id THEN 1 ELSE IF socketId[2] = id THEN 2 ELSE 0

(* Ball.resetVelocity(signedSpeed?): zero, or a horizontal velocity *)
BallResetVelocity(speed) == <<speed, 0>>

(* World.resetPositions(scoreTeam?): the positions and the ball's velocity
   after it, from the ball's velocity before it.  Player.setPosition
   overwrites the position and leaves the player without velocity;
   Ball.setPosition overwrites the position only. *)
\* the second player placed a radius, not a diameter, left of 4/5 of the width
ResetPlayerPos_Radius ==
    <<  <<GAME_WIDTH \div 4, GAME_HEIGHT \div 2>>,
        <<(GAME_WIDTH * 4) \div 5 - PLAYER_DIAMETER \div 2, GAME_HEIGHT \div 2>>  >>

ResetPlayerPos ==
    <<  <<GAME_WIDTH \div 4, GAME_HEIGHT \div 2>>,
        <<(GAME_WIDTH * 4) \div 5 - PLAYER_DIAMETER, GAME_HEIGHT \div 2>>  >>

ResetBallPos == <<GAME_WIDTH \div 2, GAME_HEIGHT \div 2>>

\* the kickoff sent toward the side of the team that scored
ResetBallVel_TowardScorer(scoreTeam, vel) ==
    IF scoreTeam # NoTeam
    THEN BallResetVelocity(IF scoreTeam = teamLeft THEN -BALL_INIT_VELOCITY
                                                   ELSE BALL_INIT_VELOCITY)
    ELSE vel

\* the ball stopped when no team is given
ResetBallVel_StopWithoutTeam(scoreTeam, vel) ==
    IF scoreTeam # NoTeam
    THEN BallResetVelocity(IF scoreTeam = teamLeft THEN BALL_INIT_VELOCITY
                                                   ELSE -BALL_INIT_VELOCITY)
    ELSE BallResetVelocity(0)

ResetBallVel(scoreTeam, vel) ==
    IF scoreTeam # NoTeam
    THEN BallResetVelocity(IF scoreTeam = teamLeft THEN BALL_INIT_VELOCITY
                                                   ELSE -BALL_INIT_VELOCITY)
    ELSE vel


-----------------------------------------------------------------------------
(* Vectors *)

Abs(n) == IF n < 0 THEN -n ELSE n

VAdd(u, v) == <<u[1] + v[1], u[2] + v[2]>>

VScale(k, v) == <<k * v[1], k * v[2]>>

Dot(u, v) == u[1] * v[1] + u[2] * v[2]

\* the least n with n * n >= s
CeilSqrt(s) == CHOOSE n \in 0..s : n * n >= s /\ (n = 0 \/ (n - 1) * (n - 1) < s)

\* c * m / n rounded toward zero
ScaleToward0(c, m, n) == IF c < 0 THEN -(((-c) * m) \div n) ELSE (c * m) \div n

-----------------------------------------------------------------------------
(* Player and Ball *)

(* Player.onUpdate: the stored direction becomes the body's velocity *)
PlayerOnUpdate(dir) == VScale(PLAYER_SPEED, dir)

(* Ball.onUpdate: a velocity faster than MAX_VELOCITY is scaled down to it *)
BallOnUpdate(v) ==
    IF Dot(v, v) <= BALL_MAX_VELOCITY * BALL_MAX_VELOCITY
    THEN v
    ELSE LET n == CeilSqrt(Dot(v, v))
         IN  <<ScaleToward0(v[1], BALL_MAX_VELOCITY, n),
               ScaleToward0(v[2], BALL_MAX_VELOCITY, n)>>

-----------------------------------------------------------------------------
(* The bodies of the world *)

ball == "ball"

playerBody == <<"player1", "player2">>

\* this.goals: goals[0] is the left team's IGoal, goals[1] the right team's
goals ==
    <<  [goal |-> "goalL", top |-> "topL", bottom |-> "bottomL", back |-> "backL"],
        [goal |-> "goalR", top |-> "topR", bottom |-> "bottomR", back |-> "backR"]  >>

Walls == {"floor", "ceiling", "wallRight", "wallLeft"}

GoalBodies == UNION { {goals[i].goal, goals[i].top, goals[i].bottom, goals[i].back} : i \in 1..2 }

Dynamic == {ball, playerBody[1], playerBody[2]}

Bodies == Dynamic \cup GoalBodies \cup Walls

(* World.addGoals(team): each obstacle as [x2, y2, w, h], the centre in
   doubled coordinates and the box's full width and height *)
GoalX(team) == IF team = teamRight THEN GAME_WIDTH - GAME_WIDTH \div 10 ELSE GAME_WIDTH \div 10

AddGoals(team) ==
    LET x2     == 2 * GoalX(team)
        sgn    == IF team = teamLeft THEN 1 ELSE -1
        offset2     == goalWidth + goalNetSize
        goalOffset2 == 2 * (goalBoxWidth + 4)
    IN  [top    |-> [x2 |-> x2, y2 |-> GAME_HEIGHT - goalHeight - goalNetSize,
                     w |-> goalWidth, h |-> goalNetSize],
         bottom |-> [x2 |-> x2, y2 |-> GAME_HEIGHT + goalHeight + goalNetSize,
                     w |-> goalWidth, h |-> goalNetSize],
         back   |-> [x2 |-> x2 - sgn * offset2, y2 |-> GAME_HEIGHT,
                     w |-> goalNetSize, h |-> goalHeight + goalNetSize * 2],
         goal   |-> [x2 |-> x2 - sgn * goalOffset2, y2 |-> GAME_HEIGHT,
                     w |-> goalBoxWidth, h |-> goalHeight]]

\* the box of a body, the players at pp and the ball at bp
Box(body, pp, bp) ==
    CASE body = ball          -> [x2 |-> 2 * bp[1], y2 |-> 2 * bp[2],
                                  w |-> BALL_DIAMETER, h |-> BALL_DIAMETER]
      [] body = playerBody[1] -> [x2 |-> 2 * pp[1][1], y2 |-> 2 * pp[1][2],
                                  w |-> PLAYER_DIAMETER, h |-> PLAYER_DIAMETER]
      [] body = playerBody[2] -> [x2 |-> 2 * pp[2][1], y2 |-> 2 * pp[2][2],
                                  w |-> PLAYER_DIAMETER, h |-> PLAYER_DIAMETER]
      [] body = "goalL"   -> AddGoals(teamLeft).goal
      [] body = "topL"    -> AddGoals(teamLeft).top
      [] body = "bottomL" -> AddGoals(teamLeft).bottom
      [] body = "backL"   -> AddGoals(teamLeft).back
      [] body = "goalR"   -> AddGoals(teamRight).goal
      [] body = "topR"    -> AddGoals(teamRight).top
      [] body = "bottomR" -> AddGoals(teamRight).bottom
      [] body = "backR"   -> AddGoals(teamRight).back

(* World.addWorldBounds: four planes whose normals face inward; a box touches
   a plane when it reaches past the plane's line *)
TouchesWall(wall, box) ==
    CASE wall = "floor"     -> box.y2 - box.h < 0
      [] wall = "ceiling"   -> box.y2 + box.h > 2 * GAME_HEIGHT
      [] wall = "wallRight" -> box.x2 + box.w > 2 * GAME_WIDTH
      [] wall = "wallLeft"  -> box.x2 - box.w < 0

BoxesOverlap(p, q) ==
    /\ Abs(p.x2 - q.x2) < p.w + q.w
    /\ Abs(p.y2 - q.y2) < p.h + q.h

\* the engine's narrowphase: the pairs of bodies that overlap, at least one of
\* them dynamic (two static bodies are never paired)
Touching(a, b, pp, bp) ==
    IF b \in Walls THEN TouchesWall(b, Box(a, pp, bp))
                   ELSE BoxesOverlap(Box(a, pp, bp), Box(b, pp, bp))

Narrowphase(pp, bp, isCleared) ==
    IF isCleared THEN {}
    ELSE { {a, b} : <<a, b>> \in
             { q \in Dynamic \X Bodies : q[1] # q[2] /\ Touching(q[1], q[2], pp, bp) } }

\* the order in which the engine reports the new pairs of one step: the order
\* of its contact list, taken as the order in which the bodies were added
BodyOrder ==
    <<"floor", "ceiling", "wallRight", "wallLeft", "player1", "player2", "ball",
      "topL", "bottomL", "backL", "goalL", "topR", "bottomR", "backR", "goalR">>

BodyRank(body) == CHOOSE k \in 1..Len(BodyOrder) : BodyOrder[k] = body

PairRank(c) ==
    LET ranks == { BodyRank(x) : x \in c }
        lo == CHOOSE r \in ranks : \A q \in ranks : r <= q
        hi == CHOOSE r \in ranks : \A q \in ranks : r >= q
    IN  lo * (Len(BodyOrder) + 1) + hi

FirstContact(queue) == CHOOSE c \in queue : \A d \in queue : PairRank(c) <= PairRank(d)

\* a position kept inside the arena's four planes
InArena(p) ==
    <<  IF p[1] < 0 THEN 0 ELSE IF p[1] > GAME_WIDTH THEN GAME_WIDTH ELSE p[1],
        IF p[2] < 0 THEN 0 ELSE IF p[2] > GAME_HEIGHT THEN GAME_HEIGHT ELSE p[2]  >>

Integrate(p, v, dt) == InArena(VAdd(p, VScale(dt, v)))

\* the solver's answer to the ball's new contacts: an elastic bounce off a
\* player (taken as much heavier than the ball) or off a static obstacle
Solve(contacts, v, pv) ==
    IF {ball, playerBody[1]} \in contacts THEN VAdd(VScale(2, pv[1]), VScale(-1, v))
    ELSE IF {ball, playerBody[2]} \in contacts THEN VAdd(VScale(2, pv[2]), VScale(-1, v))
    ELSE IF \E c \in contacts : ball \in c THEN VScale(-1, v)
    ELSE v


-----------------------------------------------------------------------------
(* World *)

(* World.getTeams *)
GetTeams == [teamLeft |-> teamLeft, teamRight |-> teamRight]

(* World.resetPositions(scoreTeam?) on the bodies' state st *)
ResetPositions(st, scoreTeam) ==
    [ppos |-> ResetPlayerPos,
     pvel |-> <<Zero, Zero>>,
     bpos |-> ResetBallPos,
     bvel |-> ResetBallVel(scoreTeam, st.bvel)]

\* some instead of every
EveryReady_Some(ready) == \E i \in PlayerIdx : ready[i]

(* setPlayerReady's return value: this.players.every((p) => p.isReady) *)
EveryReady(ready) == \A i \in PlayerIdx : ready[i]

\* the right sensor, goals[1], tested before the left one
ContactTeam_SensorBFirst(a, b) ==
    IF a = goals[2].goal \/ b = goals[2].goal THEN teamLeft
    ELSE IF a = goals[1].goal \/ b = goals[1].goal THEN teamRight
    ELSE NoTeam

\* the owner of the sensor credited instead of its opponent
ContactTeam_Owner(a, b) ==
    IF a = goals[1].goal \/ b = goals[1].goal THEN teamLeft
    ELSE IF a = goals[2].goal \/ b = goals[2].goal THEN teamRight
    ELSE NoTeam

(* the beginContact listener's classification of a pair: the team credited,
   NoTeam for null *)
ContactTeam(a, b) ==
    IF a = goals[1].goal \/ b = goals[1].goal THEN teamRight
    ELSE IF a = goals[2].goal \/ b = goals[2].goal THEN teamLeft
    ELSE NoTeam

\* the sensor test dropped: any contact of the ball counts
IsGoalContact_AnyBallContact(a, b) == a = ball \/ b = ball

\* the ball test dropped: any contact of a sensor counts
IsGoalContact_AnySensorContact(a, b) == ContactTeam(a, b) # NoTeam

(* the listener's condition for a goal *)
IsGoalContact(a, b) == ContactTeam(a, b) # NoTeam /\ (a = ball \/ b = ball)

\* the listener emitting without stopping the ball first
OnGoal_KeepVelocity(st) == st

\* the listener re-centring the bodies itself
OnGoal_Recentre(st) == ResetPositions([st EXCEPT !.bvel = BallResetVelocity(0)], NoTeam)

(* what the listener does to the bodies on a goal, before it emits:
   this.ball.resetVelocity() *)
OnGoal(st) == [st EXCEPT !.bvel = BallResetVelocity(0)]

(* what a handler registered on goalEmitter does with an event: a "score"
   handler only counts; a "reset" handler calls world.reset(evt.teamThatScored) *)
Handlers == {"reset"}

RunHandler(kind, st, evt) ==
    IF kind = "reset" THEN ResetPositions(st, evt.teamThatScored) ELSE st

(* TypedEvent.emit: every handler, in registration order *)
RECURSIVE Emit(_, _, _)
Emit(ls, st, evt) ==
    IF ls = <<>> THEN st
    ELSE Emit(Tail(ls), RunHandler(Head(ls), st, evt), evt)

Bodies4 == [ppos |-> ppos, pvel |-> pvel, bpos |-> bpos, bvel |-> bvel]

-----------------------------------------------------------------------------
Init ==
    /\ isReady = <<FALSE, FALSE>>
    /\ direction = <<Zero, Zero>>
    /\ ppos = ResetPlayerPos
    /\ pvel = <<Zero, Zero>>
    /\ bpos = ResetBallPos
    /\ bvel = Zero
    /\ listeners = <<>>
    /\ cleared = FALSE
    /\ overlaps = {}
    /\ pc = "idle"
    /\ pending = {}
    /\ goalEvents = <<>>
    /\ handlerRuns = 0
    /\ readyCalls = {}
    /\ beat = [goal |-> FALSE, reset |-> FALSE, clamped |-> FALSE, dt |-> 0, contacts |-> {}]
    /\ ticks = 0
    /\ lastOp = Op("constructor", "", NoRet)

\* the flag flipped, not set: a second call takes the readiness back
SetPlayerReady_Toggle(id) ==
    /\ pc = "idle"
    /\ LET i == FindPlayer(id)
       IN  IF i = 0
           THEN /\ lastOp' = Op("setPlayerReady", id, FALSE)
                /\ UNCHANGED <<isReady, readyCalls>>
           ELSE LET ready == [isReady EXCEPT ![i] = ~isReady[i]]
                IN  /\ isReady' = ready
                    /\ readyCalls' = readyCalls \cup {id}
                    /\ lastOp' = Op("setPlayerReady", id, EveryReady(ready))
    /\ UNCHANGED <<direction, ppos, pvel, bpos, bvel, listeners, cleared, overlaps,
                   pc, pending, goalEvents, handlerRuns, beat, ticks>>

(* World.setPlayerReady(id) *)
SetPlayerReady(id) ==
    /\ pc = "idle"
    /\ LET i == FindPlayer(id)
       IN  IF i = 0
           THEN /\ lastOp' = Op("setPlayerReady", id, FALSE)
                /\ UNCHANGED <<isReady, readyCalls>>
           ELSE LET ready == [isReady EXCEPT ![i] = TRUE]
                IN  /\ isReady' = ready
                    /\ readyCalls' = readyCalls \cup {id}
                    /\ lastOp' = Op("setPlayerReady", id, EveryReady(ready))
    /\ UNCHANGED <<direction, ppos, pvel, bpos, bvel, listeners, cleared, overlaps,
                   pc, pending, goalEvents, handlerRuns, beat, ticks>>

\* the direction written to the body's velocity at once, not staged
MovePlayer_Immediate(id, dir) ==
    /\ pc = "idle"
    /\ LET i == FindPlayer(id)
       IN  IF i = 0
           THEN UNCHANGED <<direction, pvel>>
           ELSE /\ direction' = [direction EXCEPT ![i] = dir]
                /\ pvel' = [pvel EXCEPT ![i] = PlayerOnUpdate(dir)]
    /\ lastOp' = Op("movePlayer", id, NoRet)
    /\ UNCHANGED <<isReady, ppos, bpos, bvel, listeners, cleared, overlaps,
                   pc, pending, goalEvents, handlerRuns, readyCalls, beat, ticks>>

(* World.movePlayer(id, data): Player.setDirection stores data.direction *)
MovePlayer(id, dir) ==
    /\ pc = "idle"
    /\ LET i == FindPlayer(id)
       IN  IF i = 0
           THEN UNCHANGED direction
           ELSE direction' = [direction EXCEPT ![i] = dir]
    /\ lastOp' = Op("movePlayer", id, NoRet)
    /\ UNCHANGED <<isReady, ppos, pvel, bpos, bvel, listeners, cleared, overlaps,
                   pc, pending, goalEvents, handlerRuns, readyCalls, beat, ticks>>

\* reset announcing the goal itself
Reset_Emits(team) ==
    /\ pc = "idle"
    /\ LET st == ResetPositions(Bodies4, team)
       IN  /\ ppos' = st.ppos
           /\ pvel' = st.pvel
           /\ bpos' = st.bpos
           /\ bvel' = st.bvel
    /\ goalEvents' = IF team = NoTeam THEN goalEvents
                     ELSE Append(goalEvents, [teamThatScored |-> team, allTeams |-> GetTeams,
                                              ballVelocity |-> bvel])
    /\ lastOp' = Op("reset", team, NoRet)
    /\ UNCHANGED <<isReady, direction, listeners, cleared, overlaps, pc, pending,
                   handlerRuns, readyCalls, beat, ticks>>

(* World.reset(teamThatScored?) *)
Reset(team) ==
    /\ pc = "idle"
    /\ LET st == ResetPositions(Bodies4, team)
       IN  /\ ppos' = st.ppos
           /\ pvel' = st.pvel
           /\ bpos' = st.bpos
           /\ bvel' = st.bvel
    /\ lastOp' = Op("reset", team, NoRet)
    /\ UNCHANGED <<isReady, direction, listeners, cleared, overlaps, pc, pending,
                   goalEvents, handlerRuns, readyCalls, beat, ticks>>

\* p2World.step entered before the players' and the ball's onUpdate
Heartbeat_StepBeforeUpdates(timeStep, maxTicks) ==
    /\ pc = "idle"
    /\ ticks < maxTicks
    /\ LET now == Narrowphase(ppos, bpos, cleared)
       IN  /\ overlaps' = now
           /\ pending' = now \ overlaps
           /\ beat' = [goal |-> FALSE, reset |-> FALSE, clamped |-> FALSE,
                       dt |-> timeStep, contacts |-> now \ overlaps]
    /\ pc' = "step"
    /\ ticks' = ticks + 1
    /\ lastOp' = Op("onHeartbeat", "", NoRet)
    /\ UNCHANGED <<isReady, direction, ppos, pvel, bpos, bvel, listeners, cleared,
                   goalEvents, handlerRuns, readyCalls>>

(* World.onHeartbeat(timeStep, maxSubSteps), up to the engine's narrowphase:
   every player's onUpdate, the ball's onUpdate, then p2World.step, which
   finds the overlapping pairs and queues a beginContact for each new one *)
Heartbeat(timeStep, maxTicks) ==
    /\ pc = "idle"
    /\ ticks < maxTicks
    /\ pvel' = [i \in PlayerIdx |-> PlayerOnUpdate(direction[i])]
    /\ bvel' = BallOnUpdate(bvel)
    /\ LET now == Narrowphase(ppos, bpos, cleared)
       IN  /\ overlaps' = now
           /\ pending' = now \ overlaps
           /\ beat' = [goal |-> FALSE, reset |-> FALSE,
                       clamped |-> BallOnUpdate(bvel) # bvel, dt |-> timeStep,
                       contacts |-> now \ overlaps]
    /\ pc' = "step"
    /\ ticks' = ticks + 1
    /\ lastOp' = Op("onHeartbeat", "", NoRet)
    /\ UNCHANGED <<isReady, direction, ppos, bpos, listeners, cleared, goalEvents,
                   handlerRuns, readyCalls>>

OnHeartbeat(timeStep) == Heartbeat(timeStep, MaxTicks)

(* the listener World.onBeginContact registers, run for one queued pair *)
BeginContact(a, b) ==
    /\ pc = "step"
    /\ pending # {}
    /\ {a, b} = FirstContact(pending)
    /\ pending' = pending \ {{a, b}}
    /\ IF IsGoalContact(a, b)
       THEN LET evt  == [teamThatScored |-> ContactTeam(a, b), allTeams |-> GetTeams]
                st0  == OnGoal(Bodies4)
                st   == Emit(listeners, st0, evt)
            IN  /\ goalEvents' = Append(goalEvents,
                        [teamThatScored |-> evt.teamThatScored, allTeams |-> evt.allTeams,
                         ballVelocity |-> st0.bvel])
                /\ handlerRuns' = handlerRuns + Len(listeners)
                /\ ppos' = st.ppos
                /\ pvel' = st.pvel
                /\ bpos' = st.bpos
                /\ bvel' = st.bvel
                /\ beat' = [beat EXCEPT !.goal = TRUE,
                                        !.reset = @ \/ (\E k \in 1..Len(listeners) :
                                                            listeners[k] = "reset")]
                /\ lastOp' = Op("beginContact", <<a, b>>, TRUE)
       ELSE /\ lastOp' = Op("beginContact", <<a, b>>, FALSE)
            /\ UNCHANGED <<goalEvents, handlerRuns, ppos, pvel, bpos, bvel, beat>>
    /\ UNCHANGED <<isReady, direction, listeners, cleared, overlaps, pc, ticks, readyCalls>>

\* the step of a world built with a gravity of one unit downward
StepEnd_Gravity ==
    /\ pc = "step"
    /\ pending = {}
    /\ IF cleared
       THEN UNCHANGED <<ppos, bpos, bvel>>
       ELSE LET v == VAdd(Solve(beat.contacts, bvel, pvel), VScale(beat.dt, <<0, -1>>))
            IN  /\ bvel' = v
                /\ bpos' = Integrate(bpos, v, beat.dt)
                /\ ppos' = [i \in PlayerIdx |-> Integrate(ppos[i], pvel[i], beat.dt)]
    /\ pc' = "idle"
    /\ lastOp' = Op("stepEnd", "", NoRet)
    /\ beat' = [beat EXCEPT !.contacts = {}]
    /\ UNCHANGED <<isReady, direction, pvel, listeners, cleared, overlaps, pending,
                   goalEvents, handlerRuns, readyCalls, ticks>>

(* the rest of p2World.step, once every beginContact is delivered: the solver,
   then the integration of every body the world holds; onHeartbeat returns *)
StepEnd ==
    /\ pc = "step"
    /\ pending = {}
    /\ IF cleared
       THEN UNCHANGED <<ppos, bpos, bvel>>
       ELSE LET v == Solve(beat.contacts, bvel, pvel)
            IN  /\ bvel' = v
                /\ bpos' = Integrate(bpos, v, beat.dt)
                /\ ppos' = [i \in PlayerIdx |-> Integrate(ppos[i], pvel[i], beat.dt)]
    /\ pc' = "idle"
    /\ lastOp' = Op("stepEnd", "", NoRet)
    /\ beat' = [beat EXCEPT !.contacts = {}]
    /\ UNCHANGED <<isReady, direction, pvel, listeners, cleared, overlaps, pending,
                   goalEvents, handlerRuns, readyCalls, ticks>>

(* World.getTick: the delta snapshot it returns *)
GetTickValue ==
    [players |-> [i \in PlayerIdx |->
                    [id |-> socketId[i], position |-> ppos[i], velocity |-> pvel[i]]],
     ball |-> [position |-> bpos, velocity |-> bvel]]

(* World.getInit: the full snapshot it returns (the fields that vary) *)
GetInitValue ==
    [players |-> [i \in PlayerIdx |->
                    [id |-> socketId[i], team |-> teamOf[i],
                     diameter |-> PLAYER_DIAMETER, position |-> ppos[i]]],
     gameSize |-> [width |-> GAME_WIDTH, height |-> GAME_HEIGHT],
     ball |-> [diameter |-> BALL_DIAMETER, maxVelocity |-> BALL_MAX_VELOCITY,
               position |-> bpos]]

(* World.getTick and World.getInit only read the match and build a value *)
GetTick ==
    /\ pc = "idle"
    /\ GetTickValue.ball.position = bpos
    /\ UNCHANGED vars

GetInit ==
    /\ pc = "idle"
    /\ GetInitValue.ball.position = bpos
    /\ UNCHANGED vars

\* clear without goalEmitter.removeAllListeners()
Clear_KeepListeners ==
    /\ pc = "idle"
    /\ cleared' = TRUE
    /\ overlaps' = {}
    /\ lastOp' = Op("clear", "", NoRet)
    /\ UNCHANGED <<isReady, direction, ppos, pvel, bpos, bvel, listeners, pc, pending,
                   goalEvents, handlerRuns, readyCalls, beat, ticks>>

(* World.clear: p2World.clear() removes every body, then
   goalEmitter.removeAllListeners() *)
Clear ==
    /\ pc = "idle"
    /\ cleared' = TRUE
    /\ overlaps' = {}
    /\ listeners' = <<>>
    /\ lastOp' = Op("clear", "", NoRet)
    /\ UNCHANGED <<isReady, direction, ppos, pvel, bpos, bvel, pc, pending, goalEvents,
                   handlerRuns, readyCalls, beat, ticks>>

(* goalEmitter.on(handler), called by the session layer *)
GoalEmitterOn(kind) ==
    /\ pc = "idle"
    /\ Len(listeners) < MaxListeners
    /\ listeners' = Append(listeners, kind)
    /\ lastOp' = Op("on", "", NoRet)
    /\ UNCHANGED <<isReady, direction, ppos, pvel, bpos, bvel, cleared, overlaps, pc,
                   pending, goalEvents, handlerRuns, readyCalls, beat, ticks>>

Next ==
    \/ \E id \in Ids : SetPlayerReady(id)
    \/ \E id \in Ids, dir \in Directions : MovePlayer(id, dir)
    \/ \E team \in Teams \cup {NoTeam} : Reset(team)
    \/ \E dt \in TimeSteps : OnHeartbeat(dt)
    \/ \E a \in UNION pending, b \in UNION pending : BeginContact(a, b)
    \/ StepEnd
    \/ GetTick
    \/ GetInit
    \/ Clear
    \/ \E kind \in Handlers : GoalEmitterOn(kind)

Spec == Init /\ [][Next]_vars

(* A longer match between the two players: the commands of known players and
   kickoffs after a goal, over more heartbeats *)
NextRally ==
    \/ \E id \in {Player1Id, Player2Id}, dir \in Directions : MovePlayer(id, dir)
    \/ \E team \in Teams : Reset(team)
    \/ \E dt \in TimeSteps : Heartbeat(dt, MaxRallyTicks)
    \/ \E a \in UNION pending, b \in UNION pending : BeginContact(a, b)
    \/ StepEnd

SpecRally == Init /\ [][NextRally]_vars

(* A match played to its end: handlers registered, a goal scored and handled,
   clear(), and heartbeats after it *)
NextMatchEnd ==
    \/ \E id \in {Player1Id, Player2Id}, dir \in Directions : MovePlayer(id, dir)
    \/ \E team \in Teams : Reset(team)
    \/ \E dt \in TimeSteps : Heartbeat(dt, MaxEndTicks)
    \/ \E a \in UNION pending, b \in UNION pending : BeginContact(a, b)
    \/ StepEnd
    \/ Clear
    \/ \E kind \in Handlers : GoalEmitterOn(kind)

SpecMatchEnd == Init /\ [][NextMatchEnd]_vars


-----------------------------------------------------------------------------
(* Properties *)

Last(seq) == seq[Len(seq)]

KnownIds == {"p1", "p2"}

Sensors == {"goalL", "goalR"}

\* the pair of bodies of the beginContact recorded in op
PairOf(op) == {op.arg[1], op.arg[2]}

\* the Setup placement: player 1 at (width/4, height/2), player 2 at
\* (width/1.25 - Player.DIAMETER, height/2), the ball at (width/2, height/2)
SetupPlayers == <<  <<300, 300>>, <<960 - PLAYER_DIAMETER, 300>>  >>

SetupBall == <<600, 300>>

\* a handler registered on goalEmitter calls reset
SomeHandlerResets == \E k \in 1..Len(listeners) : listeners[k] = "reset"

(* C1: with two distinct player ids, a setPlayerReady call with a known id
   returns true exactly when both players have been named in a
   setPlayerReady call so far, the current call included: false while one of
   them has never been named, true on the call that completes the pair and
   on every later call with a known id. *)
C1_ReadyReturnsTrueIffBothNamed ==
    (lastOp.op = "setPlayerReady" /\ lastOp.arg \in KnownIds)
        => (lastOp.ret = (KnownIds \subseteq readyCalls))

\* a later call of an already ready player, after heartbeats, returns true
C1_Witness ==
    /\ lastOp.op = "setPlayerReady"
    /\ lastOp.arg = "p1"
    /\ lastOp.ret = TRUE
    /\ ticks >= 1

(* C2: setPlayerReady with an id of neither player changes no player's
   readiness, direction, position or velocity and returns false, in every
   reachable state. *)
C2_UnknownReadyIsNoop ==
    [][ (lastOp'.op = "setPlayerReady" /\ lastOp'.arg \notin KnownIds)
            => (lastOp'.ret = FALSE /\ UNCHANGED <<isReady, direction, ppos, pvel>>) ]_vars

\* a stranger's call answered false although both players are ready
C2_Witness ==
    /\ lastOp.op = "setPlayerReady"
    /\ lastOp.arg = "stranger"
    /\ lastOp.ret = FALSE
    /\ isReady = <<TRUE, TRUE>>

(* C3: movePlayer with an id of neither player changes no player's stored
   direction, position, velocity or readiness and emits no scoring event. *)
C3_UnknownMoveIsNoop ==
    [][ (lastOp'.op = "movePlayer" /\ lastOp'.arg \notin KnownIds)
            => UNCHANGED <<direction, ppos, pvel, isReady, goalEvents, handlerRuns>> ]_vars

\* a stranger's move command in a match whose players have moved
C3_Witness ==
    /\ lastOp.op = "movePlayer"
    /\ lastOp.arg = "stranger"
    /\ ticks >= 1
    /\ ppos # SetupPlayers

(* C4: a begin-contact of the ball with a goal sensor emits one scoring event
   that credits the opponent of the sensor's owner: the left sensor
   (goals[0]) credits the right team, the right sensor (goals[1]) the left
   team, whichever of bodyA and bodyB is the ball; allTeams holds the match's
   left and right teams. *)
C4_SensorCreditsOpponent ==
    [][ (lastOp'.op = "beginContact" /\ \E g \in Sensors : PairOf(lastOp') = {"ball", g})
            => /\ Len(goalEvents') = Len(goalEvents) + 1
               /\ SubSeq(goalEvents', 1, Len(goalEvents)) = goalEvents
               /\ Last(goalEvents').teamThatScored =
                      (IF "goalL" \in PairOf(lastOp') THEN "right" ELSE "left")
               /\ Last(goalEvents').allTeams = [teamLeft |-> "left", teamRight |-> "right"] ]_vars

\* the right sensor as bodyA and the ball as bodyB: the left team scored
C4_Witness ==
    /\ lastOp.op = "beginContact"
    /\ lastOp.arg = <<"goalR", "ball">>
    /\ goalEvents # <<>>
    /\ Last(goalEvents).teamThatScored = "left"

(* C5: a begin-contact of the ball with a body that is no goal sensor emits
   no scoring event, leaves the ball's velocity as it is and moves neither
   the ball nor a player. *)
C5_BallOffSensorNoRuleEffect ==
    [][ (lastOp'.op = "beginContact" /\ "ball" \in PairOf(lastOp')
                                    /\ PairOf(lastOp') \cap Sensors = {})
            => UNCHANGED <<goalEvents, handlerRuns, bvel, bpos, ppos>> ]_vars

\* the moving ball reported against a goal's back wall
C5_Witness ==
    /\ lastOp.op = "beginContact"
    /\ PairOf(lastOp) \in {{"ball", "backL"}, {"ball", "backR"}}
    /\ bvel # Zero

(* C6: a begin-contact in which neither body is the ball emits no scoring
   event and leaves the ball's velocity as it is, also when one of the two
   bodies is a goal sensor. *)
C6_NoBallNoGoal ==
    [][ (lastOp'.op = "beginContact" /\ "ball" \notin PairOf(lastOp'))
            => UNCHANGED <<goalEvents, handlerRuns, bvel>> ]_vars

\* a player reported against a goal sensor while the ball is moving
C6_Witness ==
    /\ lastOp.op = "beginContact"
    /\ \E i \in PlayerIdx, g \in Sensors : PairOf(lastOp) = {playerBody[i], g}
    /\ bvel # Zero

(* C7 as claimed: when the heartbeat of a scoring contact has finished and no
   handler has invoked reset, both players and the ball are at their Setup
   coordinates. *)
C7_Original_MatchRecentresItself ==
    (lastOp.op = "stepEnd" /\ beat.goal /\ ~beat.reset)
        => (ppos = SetupPlayers /\ bpos = SetupBall)

(* C7 as amended: on a scoring contact the listener itself only stops the
   ball and emits the event; it moves no body.  The players and the ball are
   at their Setup coordinates when the listener returns only if a handler of
   the event has called reset; otherwise their positions are those of before
   the contact. *)
C7_RecentredOnlyByReset ==
    [][ (lastOp'.op = "beginContact" /\ lastOp'.ret = TRUE)
            => IF SomeHandlerResets
               THEN ppos' = SetupPlayers /\ bpos' = SetupBall
               ELSE UNCHANGED <<ppos, bpos>> /\ bvel' = Zero ]_vars

\* a goal with no handler registered: the stopped ball stays at the sensor
C7_Witness ==
    /\ lastOp.op = "beginContact"
    /\ lastOp.ret = TRUE
    /\ listeners = <<>>
    /\ bpos # SetupBall
    /\ bvel = Zero

(* C8: after reset(team) or reset(), called by the session or by a handler of
   the scoring event, in any reachable state, both players and the ball are
   at the coordinates of the construction: player 1 at (300, 300), player 2
   at (960 - Player.DIAMETER, 300), the ball at (600, 300). *)
C8_ResetRestoresSetup ==
    (\/ lastOp.op = "reset"
     \/ (lastOp.op = "beginContact" /\ lastOp.ret = TRUE /\ SomeHandlerResets))
        => (ppos = SetupPlayers /\ bpos = SetupBall)

\* a reset after heartbeats, move commands and a goal
C8_Witness ==
    /\ lastOp.op = "reset"
    /\ ticks >= 2
    /\ goalEvents # <<>>
    /\ direction[1] # Zero

(* C9: after reset(T) with T the team that scored, the ball's velocity is
   horizontal with magnitude BALL_INIT_VELOCITY = 40 and points away from
   T's side: (40, 0) after reset(left team), (-40, 0) after reset(right
   team); the same holds when a handler calls reset(teamThatScored). *)
C9_KickoffAwayFromScorer ==
    /\ (lastOp.op = "reset" /\ lastOp.arg = "left") => bvel = <<40, 0>>
    /\ (lastOp.op = "reset" /\ lastOp.arg = "right") => bvel = <<-40, 0>>
    /\ (lastOp.op = "beginContact" /\ lastOp.ret = TRUE /\ SomeHandlerResets)
           => bvel = (IF Last(goalEvents).teamThatScored = "left" THEN <<40, 0>>
                                                                  ELSE <<-40, 0>>)

\* reset(right team) in a match whose ball had been sent the other way
C9_Witness ==
    /\ lastOp.op = "reset"
    /\ lastOp.arg = "right"
    /\ bvel = <<-40, 0>>
    /\ ticks >= 1

C11_MovePlayerOnlyStages ==
    [][ /\ (lastOp'.op = "movePlayer" /\ lastOp'.arg \in KnownIds)
            => (GetTickValue' = GetTickValue)
        /\ (lastOp'.op = "onHeartbeat")
            => (\A i \in PlayerIdx : pvel'[i] = VScale(PLAYER_SPEED, direction[i])) ]_vars

\* player 1, moving left after a heartbeat, has just been told to move right:
\* the stored direction and the body's velocity disagree
C11_Witness ==
    /\ lastOp.op = "movePlayer"
    /\ lastOp.arg = "p1"
    /\ ticks >= 1
    /\ direction[1] = <<1, 0>>
    /\ pvel[1] = <<-PLAYER_SPEED, 0>>
    /\ GetTickValue.players[1].velocity = <<-PLAYER_SPEED, 0>>

(* C12: after every onHeartbeat call, whatever heartbeats, move commands,
   contacts and resets came before, the ball's speed is at most
   Ball.MAX_VELOCITY. *)
C12_SpeedAtMostMaxAfterHeartbeat ==
    lastOp.op = "stepEnd" => Dot(bvel, bvel) <= BALL_MAX_VELOCITY * BALL_MAX_VELOCITY

(* C13: clear() leaves no handler registered on goalEmitter, and from then on
   no operation invokes a handler or emits a scoring event; an onHeartbeat
   called after clear() runs to its end: its step finds no contact to report
   and returns. *)
C13_NothingFiresAfterClear ==
    [][ /\ (lastOp'.op = "clear") => (listeners' = <<>>)
        /\ cleared => (cleared' /\ handlerRuns' = handlerRuns /\ goalEvents' = goalEvents)
        /\ (cleared' /\ pc' = "step") => (pending' = {})
        /\ (cleared /\ lastOp'.op = "stepEnd") => (pc' = "idle") ]_vars

\* a handler ran on a goal, the match was cleared, and a later heartbeat has
\* run to its end
C13_Witness ==
    /\ cleared
    /\ handlerRuns >= 1
    /\ lastOp.op = "stepEnd"
    /\ beat.goal = FALSE
    /\ ticks >= 3

\* the match as the constructor leaves it, no direction stored for any player
FreshMatch ==
    /\ direction = <<Zero, Zero>>
    /\ ppos = SetupPlayers
    /\ pvel = <<Zero, Zero>>
    /\ bpos = SetupBall
    /\ bvel = Zero

(* C14: from a freshly constructed match, the ball at (600,300) at rest and
   no movePlayer command given, every step of an onHeartbeat call leaves the
   ball at (600,300) with zero velocity, leaves the players where they are
   and emits no scoring event; so any number of heartbeats does. *)
C14_IdleMatchStaysPut ==
    [][ (FreshMatch /\ lastOp'.op \in {"onHeartbeat", "beginContact", "stepEnd"})
            => (FreshMatch' /\ goalEvents' = goalEvents) ]_vars

\* two heartbeats of a live world have run on the fresh match
C14_Witness ==
    /\ FreshMatch
    /\ ~cleared
    /\ lastOp.op = "stepEnd"
    /\ ticks >= 2
    /\ goalEvents = <<>>

(* C15: a player's readiness flag starts false and is monotonic: no step of
   any operation (setPlayerReady, movePlayer, onHeartbeat and its contacts,
   reset, getTick, getInit, clear) takes a flag that is true back to false. *)
C15_ReadinessIsMonotonic ==
    /\ \A i \in PlayerIdx : isReady[i] = FALSE
    /\ [][ \A i \in PlayerIdx : isReady[i] => isReady'[i] ]_vars

\* player 1 is ready and has been named again after a goal was scored, handled
\* by a reset, while player 2 never was
C15_Witness ==
    /\ isReady = <<TRUE, FALSE>>
    /\ lastOp.op = "setPlayerReady"
    /\ lastOp.arg = "p1"
    /\ beat.reset
    /\ direction[1] # Zero

(* C16: while at least one of the two players is not ready, movement is not
   accepted: a movePlayer command for a known player leaves that player's
   stored direction as it was, and a heartbeat run before both players are
   ready moves no player. *)
C16_NoMovementBeforeBothReady ==
    [][ (~EveryReady(isReady))
            => /\ (lastOp'.op = "movePlayer" /\ lastOp'.arg \in KnownIds)
                    => (direction' = direction)
               /\ (lastOp'.op = "stepEnd") => (ppos' = ppos) ]_vars

(* C17: every onHeartbeat call does, in this order and once each: the
   pre-step update of every player (the stored direction becomes the
   velocity), the ball's pre-step update (the clamp), then one physics step.
   The step is entered with both updates done and nothing moved yet; while
   it runs only its contact callbacks and its end happen; it ends once, moving
   the bodies by the velocities the updates (and the contacts) left; outside
   a step no body moves except by reset. *)
C17_UpdatesThenOneStep ==
    [][ /\ (lastOp'.op = "onHeartbeat")
            => /\ pc = "idle" /\ pc' = "step" /\ ticks' = ticks + 1
               /\ pvel' = [i \in PlayerIdx |-> PlayerOnUpdate(direction[i])]
               /\ bvel' = BallOnUpdate(bvel)
               /\ ppos' = ppos /\ bpos' = bpos
        /\ (pc = "step")
            => (lastOp'.op \in {"beginContact", "stepEnd"} /\ ticks' = ticks)
        /\ (lastOp'.op = "stepEnd")
            => /\ pc = "step" /\ pc' = "idle"
               /\ ~cleared => /\ bpos' = Integrate(bpos, bvel', beat.dt)
                              /\ \A i \in PlayerIdx :
                                    ppos'[i] = Integrate(ppos[i], pvel[i], beat.dt)
        /\ (pc = "idle" /\ lastOp'.op # "reset")
            => (ppos' = ppos /\ bpos' = bpos) ]_vars

\* a step entered with a staged direction applied to player 1 and with the
\* ball, faster than the maximum after a collision, clamped to it
C17_Witness ==
    /\ pc = "step"
    /\ lastOp.op = "onHeartbeat"
    /\ beat.clamped
    /\ Dot(bvel, bvel) = BALL_MAX_VELOCITY * BALL_MAX_VELOCITY
    /\ pvel[1] = PlayerOnUpdate(direction[1])
    /\ direction[1] # Zero

(* C18: on a scoring contact the ball's velocity is set to zero before the
   scoring event is emitted: every event handed to goalEmitter.emit found
   the ball with zero velocity, which is what the handlers see when emit
   starts to run them. *)
C18_BallStoppedBeforeEmit ==
    \A k \in 1..Len(goalEvents) : goalEvents[k].ballVelocity = Zero

\* a goal was emitted with the ball stopped, and the handler it ran has
\* kicked the ball off again
C18_Witness ==
    /\ lastOp.op = "beginContact"
    /\ lastOp.ret = TRUE
    /\ handlerRuns >= 1
    /\ Last(goalEvents).ballVelocity = Zero
    /\ bvel # Zero

(* C19: a begin-contact notification emits at most one scoring event, for one
   team.  The listener tests the left sensor, goals[0], first: whatever the
   other body of the pair is, the right sensor included, a pair with the left
   sensor in it is classified for the right team; the pair of the two sensors
   is no goal, the ball not being in it.  An event emitted for a pair with
   the left sensor in it credits the right team. *)
C19_OneEventSensorAFirst ==
    /\ \A a \in Bodies, b \in Bodies :
          (a = goals[1].goal \/ b = goals[1].goal) => ContactTeam(a, b) = teamRight
    /\ ~IsGoalContact(goals[1].goal, goals[2].goal)
    /\ ~IsGoalContact(goals[2].goal, goals[1].goal)
    /\ [][ /\ Len(goalEvents') <= Len(goalEvents) + 1
           /\ (Len(goalEvents') > Len(goalEvents))
                => /\ lastOp'.op = "beginContact"
                   /\ Last(goalEvents').teamThatScored \in Teams
                   /\ (goals[1].goal \in PairOf(lastOp'))
                        => (Last(goalEvents').teamThatScored = teamRight) ]_vars

\* the ball and player 1 both reached the left sensor in one step: of the two
\* contacts of the sensor, the ball's alone has emitted, once, for the right team
C19_Witness ==
    /\ lastOp.op = "beginContact"
    /\ PairOf(lastOp) = {goals[1].goal, ball}
    /\ {goals[1].goal, playerBody[1]} \in beat.contacts
    /\ Len(goalEvents) = 1
    /\ goalEvents[1].teamThatScored = teamRight

(* C20: a scoring event is emitted, and a handler run, only inside an
   onHeartbeat call, by the contact callback of its physics step:
   setPlayerReady, movePlayer, reset and clear emit nothing, and getTick and
   getInit change no state of the match at all. *)
C20_EventsOnlyInsideHeartbeat ==
    [][ /\ (goalEvents' # goalEvents \/ handlerRuns' # handlerRuns)
            => (pc = "step" /\ pc' = "step" /\ lastOp'.op = "beginContact")
        /\ (lastOp'.op \in {"setPlayerReady", "movePlayer", "reset", "clear", "on"})
            => UNCHANGED <<goalEvents, handlerRuns>>
        /\ (lastOp'.op = lastOp.op /\ (GetTick \/ GetInit))
            => UNCHANGED <<isReady, direction, ppos, pvel, bpos, bvel, listeners,
                           cleared, overlaps, pending, goalEvents, handlerRuns, ticks>> ]_vars

\* a goal was emitted in a heartbeat, and the match has since been cleared
\* without a further event
C20_Witness ==
    /\ lastOp.op = "clear"
    /\ Len(goalEvents) = 1
    /\ beat.goal
    /\ pc = "idle"

=============================================================================
